---- MODULE Spec2Model ----
(***************************************************************************)
(* Model of real_estate_hungary.py: the settings resolver's type sets, the *)
(* construction of a listings page (RealEstateHungaryPageListings), its    *)
(* deduplication and listings_to_df loop, the construction of a single     *)
(* listing parser (RealEstateHungary) and the pure extraction functions    *)
(* (city normalisation, full_address, gps_coordinates).                    *)
(*                                                                         *)
(* A Python string is a sequence of characters, each character a TLA+      *)
(* string.  Python's None, where a string could stand, is the sequence     *)
(* <<"None">> and the null marker of a pandas table is <<"NaN">>: "None"   *)
(* and "NaN" are no characters of any alphabet of the model.               *)
(***************************************************************************)
EXTENDS Integers, Sequences, FiniteSets, TLC

VARIABLES
    \* ---- the listings page and one listings_to_df call
    lang,           \* settings.lang: "hun" or "eng"
    pc,             \* position of the program
    err,            \* the exception that ended the program, or NoErr
    ctor_args,      \* the arguments __init__ was called with
    page_obj,       \* the attributes __init__ has set on the listings page
    search_fetches, \* number of search-results pages fetched
    page,           \* the parsed result cards of the fetched page
    in_df,          \* checking_unique_in_df: its property_url column
    num_listings,   \* the limit argument: a number, or NoLimit for None
    unique_ids,     \* result of _check_unique_ids
    idx,            \* position of the iterrows loop in unique_ids
    counter,        \* the loop's counter
    records,        \* the accumulating table: a sequence of rows
    parser,         \* the RealEstateHungary object of the current iteration
    detail_fetches, \* the detail pages fetched so far, with the answers
    photos_dir,     \* the photos_dir of the listings page, or None
    fs_dirs,        \* the directories that exist
    downloads,      \* the photo downloads issued so far, in order
    files,          \* the files written by the downloads
    \* ---- the pure functions
    f_in,           \* the input of the function under check
    f_out           \* its result, or Pending

pageVars == <<lang, pc, err, ctor_args, page_obj, search_fetches, page, in_df,
              num_listings, unique_ids, idx, counter, records, parser,
              detail_fetches, photos_dir, fs_dirs, downloads, files>>
photoVars == <<fs_dirs, downloads, files>>
fnVars == <<f_in, f_out>>
vars == <<pageVars, fnVars>>

None == <<"None">>
NaN == <<"NaN">>
Unset == "unset"
NoLimit == -1
Pending == [kind |-> "pending"]
NoErr == [kind |-> "none"]
NoArgs == [listing_type |-> Unset, property_type |-> Unset, page_num |-> Unset, city |-> <<>>]
NoPage == [listing_type |-> Unset, property_type |-> Unset, page_num |-> Unset,
           city |-> <<>>, page_url |-> Unset]
NoParser == [kind |-> "none"]

\* ---------------------------------------------------------------- bounds
MaxCityLen == 2
MaxHeadingLen == 4
MaxRawLen == 4
MaxListings == 2
MaxLimit == 3
MaxPhotos == 2

\* ------------------------------------------------------- generic helpers
RECURSIVE SeqsUpTo(_, _)
SeqsUpTo(S, n) ==
    IF n = 0 THEN {<<>>}
    ELSE LET shorter == SeqsUpTo(S, n - 1)
         IN  shorter \cup {Append(s, c) : s \in {t \in shorter : Len(t) = n - 1}, c \in S}

Range(s) == {s[i] : i \in 1..Len(s)}

\* ---------------------------------------------- remove_spec_chars / city
\* A character is written by its name: "o_dacute" is o with double acute,
\* "o_diaer" o with diaeresis, "A_acute" capital a with acute.
\* The letters of the model's alphabet.  Accented is the Hungarian alphabet's
\* accented letters, lower and upper case.
LowerAccented == {"a_acute", "e_acute", "i_acute", "o_acute", "o_diaer", "o_dacute", "u_acute", "u_diaer", "u_dacute"}
UpperAccented == {"A_acute", "E_acute", "I_acute", "O_acute", "O_diaer", "O_dacute", "U_acute", "U_diaer", "U_dacute"}
Accented == LowerAccented \cup UpperAccented
PlainLetters == {"G", "g", "y", "r", "d", "l", "o"}
CityChars == PlainLetters \cup Accented

\* str.lower() on one character.
LowerChar(c) ==
    CASE c = "A_acute" -> "a_acute" [] c = "E_acute" -> "e_acute" [] c = "I_acute" -> "i_acute"
      [] c = "O_acute" -> "o_acute" [] c = "O_diaer" -> "o_diaer" [] c = "O_dacute" -> "o_dacute"
      [] c = "U_acute" -> "u_acute" [] c = "U_diaer" -> "u_diaer" [] c = "U_dacute" -> "u_dacute"
      [] c = "G" -> "g"
      [] OTHER -> c

Lower(s) == [i \in 1..Len(s) |-> LowerChar(s[i])]

\* transtab = str.maketrans(SPECIAL, ASCII): SPECIAL holds a-diaeresis, a-acute,
\* e-acute, i-acute, o-acute, o-double-acute, u-acute, u-diaeresis and
\* u-double-acute; a character that is not in SPECIAL is left as it is.
TransTab(c) ==
    CASE c = "a_diaer" -> "a" [] c = "a_acute" -> "a" [] c = "e_acute" -> "e"
      [] c = "i_acute" -> "i" [] c = "o_acute" -> "o" [] c = "o_dacute" -> "o"
      [] c = "u_acute" -> "u" [] c = "u_diaer" -> "u" [] c = "u_dacute" -> "u"
      [] OTHER -> c

remove_spec_chars(s) == [i \in 1..Len(s) |-> TransTab(s[i])]

\* The city setter: self._city = remove_spec_chars(city.lower()).
city_setter(c) == remove_spec_chars(Lower(c))

Gyor == <<"G", "y", "o_dacute", "r">>
Godollo == <<"G", "o_diaer", "d", "o_diaer", "l", "l", "o_dacute">>
CityInputs == SeqsUpTo(CityChars, MaxCityLen) \cup {Gyor, Godollo}

PageIdle ==
    /\ lang = "hun" /\ pc = "idle" /\ err = NoErr
    /\ ctor_args = NoArgs /\ page_obj = NoPage
    /\ search_fetches = 0 /\ page = <<>>
    /\ in_df = {} /\ num_listings = NoLimit /\ unique_ids = <<>>
    /\ idx = 0 /\ counter = 0 /\ records = <<>> /\ parser = NoParser
    /\ detail_fetches = <<>>
    /\ photos_dir = None /\ fs_dirs = {} /\ downloads = <<>> /\ files = {}

InitCity ==
    /\ PageIdle
    /\ f_in \in CityInputs
    /\ f_out = Pending

SetCity ==
    /\ f_out = Pending
    /\ f_out' = [kind |-> "ok", value |-> city_setter(f_in)]
    /\ UNCHANGED <<pageVars, f_in>>

NextCity == SetCity

SpecCity == InitCity /\ [][NextCity]_vars

\* The claim's folding table: each accented letter's unaccented ASCII letter.
Unaccented(c) ==
    CASE c \in {"a_acute", "A_acute"} -> "a" [] c \in {"e_acute", "E_acute"} -> "e"
      [] c \in {"i_acute", "I_acute"} -> "i" [] c \in {"o_acute", "O_acute", "o_diaer", "O_diaer", "o_dacute", "O_dacute"} -> "o"
      [] c \in {"u_acute", "U_acute", "u_diaer", "U_diaer", "u_dacute", "U_dacute"} -> "u"
      [] c = "G" -> "g"
      [] OTHER -> c

\* C9: city normalisation yields a lower-case token in which every accented
\* letter of the alphabet is folded to its unaccented ASCII letter, so the
\* normalised city holds no accented character; "Gyor" written with
\* o-double-acute yields "gyor".
C9_CityFolded ==
    f_out.kind = "ok" =>
        /\ Len(f_out.value) = Len(f_in)
        /\ \A i \in 1..Len(f_in) : f_out.value[i] = Unaccented(f_in[i])
        /\ Range(f_out.value) \cap Accented = {}
        /\ (f_in = Gyor => f_out.value = <<"g", "y", "o", "r">>)

\* ----------------------------------------------------- string functions
\* The 0-based index of the first occurrence of pat in s, or -1: str.find.
Find(s, pat) ==
    LET hits == {i \in 0..(Len(s) - Len(pat)) : SubSeq(s, i + 1, i + Len(pat)) = pat}
    IN  IF hits = {} THEN -1 ELSE CHOOSE i \in hits : \A j \in hits : i <= j

\* s[a:] for a >= 0.
SliceFrom(s, a) == SubSeq(s, a + 1, Len(s))

\* s[:b]: the first b characters, or all but the last -b when b is negative.
SliceTo(s, b) ==
    IF b >= 0 THEN SubSeq(s, 1, IF b < Len(s) THEN b ELSE Len(s))
    ELSE SubSeq(s, 1, IF Len(s) + b > 0 THEN Len(s) + b ELSE 0)

\* s.split(sep) for a one-character separator.
RECURSIVE Split(_, _)
Split(s, sep) ==
    LET at == Find(s, <<sep>>)
    IN  IF at = -1 THEN <<s>>
        ELSE <<SubSeq(s, 1, at)>> \o Split(SliceFrom(s, at + 1), sep)

\* sep.join(parts).
RECURSIVE Join(_, _)
Join(parts, sep) ==
    IF parts = <<>> THEN <<>>
    ELSE IF Len(parts) = 1 THEN parts[1]
    ELSE parts[1] \o <<sep>> \o Join(Tail(parts), sep)

\* s.strip(): leading and trailing blanks removed.
RECURSIVE Strip(_)
Strip(s) ==
    IF s = <<>> THEN s
    ELSE IF s[1] = " " THEN Strip(Tail(s))
    ELSE IF s[Len(s)] = " " THEN Strip(SubSeq(s, 1, Len(s) - 1))
    ELSE s

\* ----------------------------------------------------------- full_address
\* The "hun" branch unpacks addrs_full.split(",") into exactly two names; any
\* other number of parts raises ValueError, which the except clause turns
\* into (addrs_full, None).  The "eng" branch rejoins everything after the
\* first comma.
full_address(lng, addrs_full) ==
    LET parts == Split(addrs_full, ",")
    IN  IF lng = "hun"
        THEN IF Len(parts) = 2
             THEN [city_district |-> parts[1], address |-> Strip(parts[2])]
             ELSE [city_district |-> addrs_full, address |-> None]
        ELSE [city_district |-> Strip(Join(Tail(parts), ",")), address |-> None]

HeadingChars == {"a", " ", ","}
Langs == {"hun", "eng"}

InitAddr ==
    /\ PageIdle
    /\ f_in \in [lang : Langs, heading : SeqsUpTo(HeadingChars, MaxHeadingLen)]
    /\ f_out = Pending

FullAddress ==
    /\ f_out = Pending
    /\ f_out' = [kind |-> "ok", value |-> full_address(f_in.lang, f_in.heading)]
    /\ UNCHANGED <<pageVars, f_in>>

NextAddr == FullAddress

SpecAddr == InitAddr /\ [][NextAddr]_vars

\* C10: in the "hun" locale full_address splits the heading on its first
\* comma: with one or more commas city_district is the text before the first
\* comma and address the trimmed text after it; with no comma city_district
\* is the whole heading and address is None.
C10_SplitOnFirstComma ==
    (f_out.kind = "ok" /\ f_in.lang = "hun") =>
        LET h == f_in.heading
            at == Find(h, <<",">>)
        IN  IF at = -1
            THEN f_out.value = [city_district |-> h, address |-> None]
            ELSE f_out.value = [city_district |-> SliceTo(h, at),
                                address |-> Strip(SliceFrom(h, at + 1))]

\* -------------------------------------------------- gps_coordinates (eng)
\* The page text str(self.parsed_html) is a sequence of lexical tokens; the
\* keyword 'map.addMarker' is one token and the terminator ',title' is the
\* comma followed by the token "title".
gps_keyword == <<"map.addMarker">>
title_term == <<",", "title">>
Brackets == {"[", "(", "{", "}", ")"}
NumberTokens == {"1.5"}
GpsTokens == {"map.addMarker", "(", ",", ":", "title", "lat", "1.5", "x"}

\* float(p) succeeds on a part that is one number.
IsFloat(p) == Len(p) = 1 /\ p[1] \in NumberTokens

\* re.sub('[[({})]', '', ...) of the text between the keyword and ',title'.
GpsResult(raw_html) ==
    LET intermed_part == SliceFrom(raw_html, Find(raw_html, gps_keyword) + Len(gps_keyword))
        cut == SliceTo(intermed_part, Find(intermed_part, title_term))
    IN  SelectSeq(cut, LAMBDA t : t \notin Brackets)

\* What evaluating one item of the dict comprehension does: the key
\* v.split(':')[0], then v.split(':')[1] (IndexError without a ':'), then
\* float() of it (ValueError when it is no number).
GpsEntry(v) ==
    LET parts == Split(v, ":")
    IN  IF Len(parts) < 2 THEN [kind |-> "IndexError"]
        ELSE IF ~IsFloat(Strip(parts[2])) THEN [kind |-> "ValueError"]
        ELSE [kind |-> "ok", key |-> parts[1], value |-> Strip(parts[2])]

NoneCoords == [k \in {<<"lat">>, <<"lng">>} |-> None]

\* The exceptions the try statement of gps_coordinates catches.
GpsCaught == {"IndexError"}

gps_coordinates_eng(raw_html) ==
    LET entries == Split(GpsResult(raw_html), ",")
        items == [i \in 1..Len(entries) |-> GpsEntry(entries[i])]
        bad == {i \in 1..Len(items) : items[i].kind # "ok"}
    IN  IF bad = {}
        THEN [kind |-> "ok",
              value |-> [k \in {items[i].key : i \in 1..Len(items)} |->
                          LET last == CHOOSE i \in 1..Len(items) :
                                        /\ items[i].key = k
                                        /\ \A j \in 1..Len(items) : items[j].key = k => j <= i
                          IN  items[last].value]]
        ELSE LET first == CHOOSE i \in bad : \A j \in bad : i <= j
             IN  IF items[first].kind \in GpsCaught
                 THEN [kind |-> "ok", value |-> NoneCoords]
                 ELSE [kind |-> "raise", exc |-> items[first].kind]

WellFormedSnippet ==
    <<"map.addMarker", "(", "lat", ":", "1.5", ",", "lng", ":", "1.5", ",", "title">>
NonNumberSnippet ==
    <<"map.addMarker", "(", "lat", ":", "x", ",", "lng", ":", "1.5", ",", "title">>
GpsInputs == SeqsUpTo(GpsTokens, MaxRawLen) \cup {WellFormedSnippet, NonNumberSnippet}

InitGps ==
    /\ PageIdle
    /\ f_in \in GpsInputs
    /\ f_out = Pending

GpsCoordinates ==
    /\ f_out = Pending
    /\ f_out' = gps_coordinates_eng(f_in)
    /\ UNCHANGED <<pageVars, f_in>>

NextGps == GpsCoordinates

SpecGps == InitGps /\ [][NextGps]_vars

\* The claim's malformed snippets: the marker keyword missing, the ',title'
\* terminator missing, an entry without ':', or a value that is no number.
GpsMalformed(raw_html) ==
    LET after == SliceFrom(raw_html, Find(raw_html, gps_keyword) + Len(gps_keyword))
        entries == Split(GpsResult(raw_html), ",")
    IN  \/ Find(raw_html, gps_keyword) = -1
        \/ Find(after, title_term) = -1
        \/ \E i \in 1..Len(entries) : GpsEntry(entries[i]).kind # "ok"

\* C8: in the "eng" locale gps_coordinates never raises, and for every page
\* text whose map-script snippet is absent or malformed it returns
\* {lat: None, lng: None}.
C8_GpsNeverRaises ==
    f_out.kind # "pending" =>
        /\ f_out.kind # "raise"
        /\ (GpsMalformed(f_in) => f_out = [kind |-> "ok", value |-> NoneCoords])

\* ------------------------------------------------ RealEstateHungarySettings
\* URL_LANG[lang]; the URL is one token, which no translation changes.
base_url(lng) == IF lng = "hun" THEN <<"https://ingatlan.com/">> ELSE <<"https://realestate.hu/">>

\* The option values the resolver reads from the site's search form.
listing_types(lng) == IF lng = "hun" THEN {"elado", "kiado"} ELSE {"sale", "rent"}
property_types(lng) == IF lng = "hun" THEN {"lakas", "haz"} ELSE {"apartment", "house"}

TypeTokens == listing_types("hun") \cup listing_types("eng")
                \cup property_types("hun") \cup property_types("eng")

\* ------------------------------------- RealEstateHungaryPageListings.__init__
\* int(page_num) of the page_num setter: the literals it accepts.
IntLiterals == {"1"}
PageNumInputs == IntLiterals \cup {"x"}

\* A setter that accepts every token.
listing_type_setter_unchecked(lng, lt) == NoErr

\* The listing_type setter: the exception it raises, or NoErr.
listing_type_setter(lng, lt) ==
    IF lt \notin listing_types(lng)
    THEN [kind |-> "BaseException", what |-> "listing types", names |-> listing_types(lng)]
    ELSE NoErr

\* The property_type setter.
property_type_setter(lng, pt) ==
    IF pt \notin property_types(lng)
    THEN [kind |-> "BaseException", what |-> "property types", names |-> property_types(lng)]
    ELSE NoErr

\* The page_num setter.
page_num_setter(pn) ==
    IF pn \notin IntLiterals
    THEN [kind |-> "ValueError", what |-> "Page number must be integer."]
    ELSE NoErr

\* The result cards a search-results page can hold: data-id, data-cluster-id
\* (absent on some cards) and the href of the card's link.
HunCards ==
    { [data_id |-> <<"1">>, data_cluster_id |-> <<"c">>, href |-> <<"/", "a">>],
      [data_id |-> <<"2">>, data_cluster_id |-> None, href |-> <<"/", "a_acute">>],
      [data_id |-> <<"3">>, data_cluster_id |-> <<"c">>, href |-> <<"/", "b">>] }
EngCards == {[data_id |-> c.data_id, href |-> c.href] : c \in HunCards}
Cards(lng) == IF lng = "hun" THEN HunCards ELSE EngCards

\* The pages: sequences of distinct cards.
Pages(lng) == {pg \in SeqsUpTo(Cards(lng), MaxListings) :
             \A i, j \in 1..Len(pg) : pg[i] = pg[j] => i = j}

\* The answers of the search-results fetch.
SearchAnswers == {"200", "HTTPError"}

\* __init__: the setters in the order of the assignments, then the URL, then
\* the one fetch of the search-results page.
Construct(lt, pt, pn, c, dir, answer, pg) ==
    /\ pc = "new"
    /\ photos_dir' = dir
    /\ ctor_args' = [listing_type |-> lt, property_type |-> pt, page_num |-> pn, city |-> c]
    /\ IF listing_type_setter(lang, lt) # NoErr
       THEN /\ err' = listing_type_setter(lang, lt)
            /\ pc' = "ctor_failed"
            /\ UNCHANGED <<page_obj, search_fetches, page>>
       ELSE IF property_type_setter(lang, pt) # NoErr
       THEN /\ err' = property_type_setter(lang, pt)
            /\ pc' = "ctor_failed"
            /\ page_obj' = [page_obj EXCEPT !.listing_type = lt]
            /\ UNCHANGED <<search_fetches, page>>
       ELSE IF page_num_setter(pn) # NoErr
       THEN /\ err' = page_num_setter(pn)
            /\ pc' = "ctor_failed"
            /\ page_obj' = [page_obj EXCEPT !.listing_type = lt, !.property_type = pt]
            /\ UNCHANGED <<search_fetches, page>>
       ELSE /\ page_obj' = [listing_type |-> lt, property_type |-> pt, page_num |-> pn,
                            city |-> city_setter(c), page_url |-> "built"]
            /\ search_fetches' = search_fetches + 1
            /\ IF answer = "200"
               THEN /\ page' = pg
                    /\ pc' = "page"
                    /\ err' = NoErr
               ELSE /\ page' = <<>>
                    /\ pc' = "ctor_failed"
                    /\ err' = [kind |-> "HTTPError", what |-> "search page"]
    /\ UNCHANGED <<lang, in_df, num_listings, unique_ids, idx, counter, records,
                   parser, detail_fetches, photoVars, fnVars>>

\* ----------------------------------------------------- get_page_listings
\* "{0}{1}".format(self._url, href.lstrip('/')).
RECURSIVE LStripSlash(_)
LStripSlash(s) == IF s # <<>> /\ s[1] = "/" THEN LStripSlash(Tail(s)) ELSE s

property_url_of(lng, card) == base_url(lng) \o LStripSlash(card.href)

\* The rows of pd.DataFrame(self.get_page_listings()): the "hun" dictionary
\* has the columns property_ids, cluster_ids and property_urls, the "eng"
\* dictionary has no cluster_ids.
get_page_listings(lng, cards) ==
    [i \in 1..Len(cards) |->
        IF lng = "hun"
        THEN [property_ids |-> cards[i].data_id,
              cluster_ids |-> cards[i].data_cluster_id,
              property_urls |-> property_url_of(lng, cards[i])]
        ELSE [property_ids |-> cards[i].data_id,
              property_urls |-> property_url_of(lng, cards[i])]]

get_property_urls(lng, cards) ==
    [i \in 1..Len(cards) |-> get_page_listings(lng, cards)[i].property_urls]

\* ------------------------------------------------------ _check_unique_ids
\* The mask without its negation.
uniq_urls_unnegated(ids, df) == [i \in 1..Len(ids) |-> ids[i].property_urls \in df]

\* uniq_urls = ~ids.property_urls.isin(in_df[in_df_col_name]): the mask.
uniq_urls(ids, df) == [i \in 1..Len(ids) |-> ~(ids[i].property_urls \in df)]

\* ids[mask]: the rows whose mask is True, in the order of the table.
RECURSIVE BoolIndex(_, _)
BoolIndex(ids, mask) ==
    IF ids = <<>> THEN <<>>
    ELSE (IF mask[1] THEN <<ids[1]>> ELSE <<>>) \o BoolIndex(Tail(ids), Tail(mask))

\* in_df.empty is true of a table without rows.
check_unique_ids(lng, cards, df) ==
    LET ids == get_page_listings(lng, cards)
    IN  IF df # {} THEN BoolIndex(ids, uniq_urls(ids, df)) ELSE ids

\* ------------------------------------------------------------------- photos
\* The photos a detail page can list: the source URL and, in the "hun"
\* descriptors, the label.  "/" and "." are the characters os.path looks for.
Photo1 == [large_url |-> <<"h", "/", "p", ".", "j">>, label |-> <<"L">>]
Photo2 == [large_url |-> <<"h", "/", "q">>, label |-> <<"L">>]
Photo3 == [large_url |-> <<"h", "/", "d", "/", "r", ".", "g">>, label |-> <<"M">>]
PhotoSet == {Photo1, Photo2, Photo3}
PhotoDirs == {<<"o">>}

\* ------------------------------------------------ RealEstateHungary.__init__
\* What the detail pages can hold: the values the accessors read from one.
V == <<"v">>
FullDoc == [address |-> V, lot_size |-> V, room |-> V, desc |-> V, photos |-> <<Photo1>>]
SparseDoc == [address |-> None, lot_size |-> None, room |-> None, desc |-> None,
              photos |-> <<>>]
DetailDocs == {FullDoc, SparseDoc}

\* The answers of a detail-page fetch: the page, an HTTPError with a status
\* code, or an error that is no HTTPError.
DetailAnswers == {"200", "404", "500", "URLError"}
HttpErrorCodes == {"404", "500"}
GoneMsg == "Property does not exist, probably already sold/rent or being edited"

\* An except clause that raises nothing again.
reraised_never(code) == FALSE

\* The status codes for which the except clause raises again.
Reraised(code) == code = "404"

\* __init__ of the parser: property_url is stripped, the page is fetched, and
\* the except clause handles an HTTPError; any other error propagates.  An
\* HTTPError that is not raised again leaves the object without parsed_html.
real_estate_init(property_url, answer, doc) ==
    LET stripped == remove_spec_chars(property_url)
    IN  IF answer = "200"
        THEN [kind |-> "ok",
              parser |-> [kind |-> "parser", property_url |-> stripped,
                          parsed |-> TRUE, doc |-> doc]]
        ELSE IF answer \notin HttpErrorCodes
        THEN [kind |-> "raise", err |-> [kind |-> answer]]
        ELSE IF Reraised(answer)
        THEN [kind |-> "raise",
              err |-> [kind |-> "HTTPError", code |-> answer, msg |-> GoneMsg,
                       url |-> property_url]]
        ELSE [kind |-> "ok",
              parser |-> [kind |-> "parser", property_url |-> stripped,
                          parsed |-> FALSE, doc |-> SparseDoc]]

\* ------------------------------------------------------------ extract_photos
\* The last position of character c in s, 0 when s has none: s.rfind(c) + 1.
LastIndex(s, c) ==
    LET hits == {i \in 1..Len(s) : s[i] = c}
    IN  IF hits = {} THEN 0 ELSE CHOOSE i \in hits : \A j \in hits : j <= i

\* os.path.split(p)[1]: what follows the last "/".
path_split_tail(p) == SubSeq(p, LastIndex(p, "/") + 1, Len(p))

\* os.path.splitext(fp): the extension starts at the last "." after the last
\* "/", unless only dots stand between them.
path_splitext(fp) ==
    LET sepIndex == LastIndex(fp, "/")
        dotIndex == LastIndex(fp, ".")
    IN  IF dotIndex > sepIndex /\ \E i \in (sepIndex + 1)..(dotIndex - 1) : fp[i] # "."
        THEN [fn |-> SubSeq(fp, 1, dotIndex - 1), ext |-> SubSeq(fp, dotIndex, Len(fp))]
        ELSE [fn |-> fp, ext |-> <<>>]

\* os.path.join(a, b) of two components.
path_join(a, b) ==
    IF b # <<>> /\ b[1] = "/" THEN b
    ELSE IF a = <<>> \/ a[Len(a)] = "/" THEN a \o b
    ELSE a \o <<"/">> \o b

\* The two format strings of extract_photos: '{0}_{1}{2}' and '{0}{2}'.
Field(n) == [kind |-> "field", n |-> n, text |-> <<>>]
Literal(t) == [kind |-> "literal", n |-> 0, text |-> t]
hun_template == <<Field(0), Literal(<<"_">>), Field(1), Field(2)>>
eng_template == <<Field(0), Field(2)>>

RECURSIVE Flatten(_)
Flatten(parts) == IF parts = <<>> THEN <<>> ELSE parts[1] \o Flatten(Tail(parts))

\* template.format(*args): every replacement field {n} needs n < len(args).
str_format(template, args) ==
    IF \E i \in 1..Len(template) :
           template[i].kind = "field" /\ template[i].n >= Len(args)
    THEN [kind |-> "raise", err |-> [kind |-> "IndexError"]]
    ELSE [kind |-> "ok",
          value |-> Flatten([i \in 1..Len(template) |->
                                IF template[i].kind = "field"
                                THEN args[template[i].n + 1]
                                ELSE template[i].text])]

\* The _photos property: descriptors on a "hun" page, hrefs on an "eng" page.
photos_of(lng, prs) ==
    IF lng = "hun" THEN prs.doc.photos
    ELSE [i \in 1..Len(prs.doc.photos) |-> prs.doc.photos[i].large_url]

eng_ext == <<".", "jpg">>

\* The body of the loop up to the download: the URL to request and the path
\* to save to.
photo_target(lng, photo, save_dir) ==
    LET url == IF lng = "hun" THEN photo.large_url ELSE photo
        named == IF lng = "hun"
                 THEN LET parts == path_splitext(path_split_tail(photo.large_url))
                      IN  str_format(hun_template, <<parts.fn, photo.label, parts.ext>>)
                 ELSE str_format(eng_template, <<path_split_tail(photo), eng_ext>>)
    IN  IF named.kind = "raise" THEN named
        ELSE [kind |-> "ok", url |-> url, save_path |-> path_join(save_dir, named.value)]

\* extract_photos(save_dir) with the directories dirs in existence, where
\* the request of download number bad (if any) is answered with an error.
\* A download requests the photo and then writes the file.
extract_photos(lng, prs, save_dir, dirs, bad) ==
    LET made == dirs \cup {save_dir}
    IN  IF ~prs.parsed
        THEN [kind |-> "raise", err |-> [kind |-> "AttributeError", attr |-> "parsed_html"],
              dirs |-> made, downloads |-> <<>>, files |-> {}]
        ELSE LET ps == photos_of(lng, prs)
                 target(i) == photo_target(lng, ps[i], save_dir)
                 fails == {i \in 1..Len(ps) : target(i).kind = "raise" \/ i = bad}
                 stop == IF fails = {} THEN Len(ps) + 1
                         ELSE CHOOSE i \in fails : \A j \in fails : i <= j
                 requested == IF stop <= Len(ps) /\ target(stop).kind = "ok"
                              THEN stop ELSE stop - 1
             IN  [kind |-> IF fails = {} THEN "ok" ELSE "raise",
                  err |-> IF fails = {} THEN NoErr
                          ELSE IF target(stop).kind = "raise" THEN target(stop).err
                          ELSE [kind |-> "HTTPError", code |-> "500"],
                  dirs |-> made,
                  downloads |-> [i \in 1..requested |->
                                    [url |-> target(i).url, save_path |-> target(i).save_path]],
                  files |-> {target(i).save_path : i \in 1..(stop - 1)}]

\* ------------------------------------------------------------ extract_attrs
\* Right-biased union of two dictionaries: {**a, **b}.
Merge(a, b) == [k \in (DOMAIN a) \cup (DOMAIN b) |-> IF k \in DOMAIN b THEN b[k] ELSE a[k]]

\* RealEstateHungary.extract_attrs: the single-valued fields and the open
\* fields.  The "eng" locale never yields an address or a room count.
parser_extract_attrs(lng, prs) ==
    LET single == [property_url |-> prs.property_url,
                   city_district |-> V,
                   address |-> IF lng = "eng" THEN None ELSE prs.doc.address,
                   lot_size |-> prs.doc.lot_size,
                   area_size |-> V,
                   room |-> IF lng = "eng" THEN None ELSE prs.doc.room,
                   photos |-> V,
                   desc |-> prs.doc.desc]
        multiple == IF lng = "eng"
                    THEN [price_in_huf |-> V, price_in_eur |-> V, lat |-> V, lng |-> V]
                    ELSE [price_in_huf |-> V, lat |-> V, lng |-> V]
    IN  Merge(single, multiple)

\* RealEstateHungaryPageListings.extract_attrs.
page_extract_attrs(lng, pg) ==
    [lang |-> <<lng>>, listing_type |-> <<pg.listing_type>>,
     property_type |-> <<pg.property_type>>, page_num |-> <<pg.page_num>>,
     max_page |-> V, max_listing |-> V]

\* DataFrame.dropna(axis=1) of a one-row table: the columns holding a null go.
IsNull(x) == x = None \/ x = NaN
DropNa(row) == [k \in {c \in DOMAIN row : ~IsNull(row[c])} |-> row[k]]

\* _create_record after the parser is built: the parser's attributes, updated
\* with the page's attributes and the identifiers, the timestamp, dropna.
create_record(lng, pg, prs, prop_id, cluster_id) ==
    LET attrs == Merge(parser_extract_attrs(lng, prs),
                       Merge(page_extract_attrs(lng, pg),
                             [property_id |-> prop_id, cluster_id |-> cluster_id]))
        stamped == Merge(attrs, [timestamp |-> V])
    IN  DropNa(stamped)

\* pd.concat([records, single], axis=0, sort=False): the columns of the result
\* are the union of the columns, and a row without a column holds NaN in it.
Columns(table) == UNION {DOMAIN table[i] : i \in 1..Len(table)}
Concat(table, single) ==
    LET rows == table \o <<single>>
        cols == Columns(rows)
    IN  [i \in 1..Len(rows) |->
            [c \in cols |-> IF c \in DOMAIN rows[i] THEN rows[i][c] ELSE NaN]]

\* ------------------------------------------------------------ listings_to_df
\* "if num_listings": None and 0 are false.
Truthy(n) == n # NoLimit /\ n # 0

Limits == {NoLimit} \cup 0..MaxLimit

\* The tables of existing records: sets of URLs, raw or accent-stripped.
KnownUrls(lng) ==
    {property_url_of(lng, c) : c \in Cards(lng)}
        \cup {remove_spec_chars(property_url_of(lng, c)) : c \in Cards(lng)}
ExistingTables(lng) == SUBSET KnownUrls(lng)

BoundsErr(max_listing) ==
    [kind |-> "ValueError", what |-> "number of listings exceeded", max |-> max_listing]

\* The call up to the loop: the bounds check against the number of URLs on the
\* page, then _check_unique_ids.  With nothing to iterate the call returns.
ListingsToDf(n, df) ==
    /\ pc = "page"
    /\ num_listings' = n
    /\ in_df' = df
    /\ LET max_listing == Len(get_property_urls(lang, page))
           uniq == check_unique_ids(lang, page, df)
       IN  IF Truthy(n) /\ n > max_listing
           THEN /\ pc' = "raised"
                /\ err' = BoundsErr(max_listing)
                /\ UNCHANGED <<unique_ids, idx, counter, records>>
           ELSE /\ unique_ids' = uniq
                /\ counter' = 0
                /\ records' = <<>>
                /\ err' = NoErr
                /\ IF uniq = <<>>
                   THEN pc' = "returned" /\ idx' = 0
                   ELSE pc' = "loop" /\ idx' = 1
    /\ UNCHANGED <<lang, ctor_args, page_obj, search_fetches, page, parser,
                   detail_fetches, photos_dir, photoVars, fnVars>>

\* The head of one iteration: the row's three columns are read (the row of an
\* "eng" page has no cluster_ids), then _create_record builds the parser.
ParserInit(answer, doc) ==
    /\ pc = "loop"
    /\ LET r == unique_ids[idx]
       IN  IF "cluster_ids" \notin DOMAIN r
           THEN /\ pc' = "raised"
                /\ err' = [kind |-> "KeyError", key |-> "cluster_ids"]
                /\ UNCHANGED <<parser, detail_fetches>>
           ELSE LET out == real_estate_init(r.property_urls, answer, doc)
                IN  /\ detail_fetches' =
                           Append(detail_fetches,
                                  [url |-> remove_spec_chars(r.property_urls),
                                   answer |-> answer, property_id |-> r.property_ids])
                    /\ IF out.kind = "raise"
                       THEN pc' = "raised" /\ err' = out.err /\ UNCHANGED parser
                       ELSE pc' = "constructed" /\ parser' = out.parser /\ UNCHANGED err
    /\ UNCHANGED <<lang, ctor_args, page_obj, search_fetches, page, in_df,
                   num_listings, unique_ids, idx, counter, records, photos_dir,
                   photoVars, fnVars>>

\* _create_record with a photos_dir: the photos of the new parser are
\* extracted before its fields.
ExtractPhotos(bad) ==
    /\ pc = "constructed"
    /\ photos_dir # None
    /\ LET out == extract_photos(lang, parser, photos_dir, fs_dirs, bad)
       IN  /\ fs_dirs' = out.dirs
           /\ downloads' = downloads \o out.downloads
           /\ files' = files \cup out.files
           /\ IF out.kind = "raise"
              THEN pc' = "raised" /\ err' = out.err
              ELSE pc' = "photos_done" /\ UNCHANGED err
    /\ UNCHANGED <<lang, ctor_args, page_obj, search_fetches, page, in_df,
                   num_listings, unique_ids, idx, counter, records, parser,
                   detail_fetches, photos_dir, fnVars>>

\* The rest of the iteration, after the photos when a photos_dir is set:
\* the fields are extracted (which needs the parsed page), the record is
\* appended, and the loop ends at the limit or at the last row.
CreateRecord ==
    /\ \/ pc = "constructed" /\ photos_dir = None
       \/ pc = "photos_done"
    /\ IF ~parser.parsed
       THEN /\ pc' = "raised"
            /\ err' = [kind |-> "AttributeError", attr |-> "parsed_html"]
            /\ UNCHANGED <<records, counter, idx>>
       ELSE LET r == unique_ids[idx]
                single == create_record(lang, page_obj, parser, r.property_ids, r.cluster_ids)
                stop == Truthy(num_listings) /\ counter + 1 = num_listings
            IN  /\ records' = Concat(records, single)
                /\ counter' = IF Truthy(num_listings) THEN counter + 1 ELSE counter
                /\ IF stop \/ idx = Len(unique_ids)
                   THEN pc' = "returned" /\ UNCHANGED idx
                   ELSE pc' = "loop" /\ idx' = idx + 1
                /\ UNCHANGED err
    /\ UNCHANGED <<lang, ctor_args, page_obj, search_fetches, page, in_df,
                   num_listings, unique_ids, parser, detail_fetches, photos_dir,
                   photoVars, fnVars>>

Init ==
    /\ lang \in Langs
    /\ pc = "new" /\ err = NoErr
    /\ ctor_args = NoArgs /\ page_obj = NoPage
    /\ search_fetches = 0 /\ page = <<>>
    /\ in_df = {} /\ num_listings = NoLimit /\ unique_ids = <<>>
    /\ idx = 0 /\ counter = 0 /\ records = <<>> /\ parser = NoParser
    /\ detail_fetches = <<>>
    /\ photos_dir = None /\ fs_dirs = {}
    /\ downloads = <<>> /\ files = {}
    /\ f_in = <<>> /\ f_out = Pending

Next ==
    \/ /\ pc = "new"
       /\ \E lt \in TypeTokens, pt \in TypeTokens, pn \in PageNumInputs,
             dir \in {None} \cup PhotoDirs, answer \in SearchAnswers, pg \in Pages(lang) :
             Construct(lt, pt, pn, Gyor, dir, answer, pg)
    \/ /\ pc = "page"
       /\ \E n \in Limits, df \in ExistingTables(lang) : ListingsToDf(n, df)
    \/ /\ pc = "loop"
       /\ \E answer \in DetailAnswers, doc \in DetailDocs : ParserInit(answer, doc)
    \/ \E bad \in 0..MaxPhotos : ExtractPhotos(bad)
    \/ CreateRecord

Spec == Init /\ [][Next]_vars

\* ------------------------------------------------------------------ claims
\* The rows of the current page and the number of them whose URL the
\* existing table does not hold.
PageRows == get_page_listings(lang, page)
UnseenIdx == {i \in 1..Len(PageRows) : PageRows[i].property_urls \notin in_df}
CallEnded == pc \in {"returned", "raised"}
CallStarted == pc \in {"loop", "constructed", "photos_done", "returned"}

\* C1: with U unseen listings on the page, listings_to_df with a limit N
\* returns exactly N rows when N <= U and fails with the bounds error,
\* returning no table, when N > U.
C1_LimitRows ==
    (CallEnded /\ num_listings # NoLimit) =>
        IF num_listings <= Cardinality(UnseenIdx)
        THEN pc = "returned" /\ Len(records) = num_listings
        ELSE pc = "raised" /\ err.kind = "ValueError"

\* The k-th smallest element of a set of numbers.
KthOf(S, k) == CHOOSE i \in S : Cardinality({j \in S : j <= i}) = k

\* C2: _check_unique_ids returns exactly the page's rows whose URL is not in
\* the existing table's URL column, in page order and unchanged; every row
\* with an empty table, no row with a table holding every URL of the page.
C2_UniqueIdsExact ==
    CallStarted =>
        /\ Len(unique_ids) = Cardinality(UnseenIdx)
        /\ \A k \in 1..Len(unique_ids) : unique_ids[k] = PageRows[KthOf(UnseenIdx, k)]
        /\ (in_df = {} => unique_ids = PageRows)
        /\ (Range(get_property_urls(lang, page)) \subseteq in_df => unique_ids = <<>>)

C2_Witness ==
    /\ pc = "loop"
    /\ Len(page) = 2
    /\ in_df # {}
    /\ unique_ids = <<PageRows[2]>>

\* Whether __init__ has ended, and how its arguments stand to the resolver.
CtorEnded == pc \notin {"new", "idle"}
ListingTypeValid == ctor_args.listing_type \in listing_types(lang)
PropertyTypeValid == ctor_args.property_type \in property_types(lang)
TypesValid == ListingTypeValid /\ PropertyTypeValid

\* An invalid type fails the construction with an error naming the valid
\* tokens, before the URL is built and before any search-results fetch.
InvalidTypeFailsFirst ==
    ~TypesValid =>
        /\ pc = "ctor_failed"
        /\ err.kind = "BaseException"
        /\ err.names = IF ~ListingTypeValid THEN listing_types(lang) ELSE property_types(lang)
        /\ page_obj.page_url = Unset
        /\ search_fetches = 0

\* C3 as stated: an invalid listing or property type fails the construction
\* with an error naming the valid tokens before the URL is built or a page is
\* fetched; with both types valid the construction issues exactly one
\* search-results fetch.
C3_Original ==
    CtorEnded =>
        /\ InvalidTypeFailsFirst
        /\ (TypesValid => search_fetches = 1)

\* C3 as amended: as C3, the one fetch being issued when both types are valid
\* and int() accepts the page number.
C3_ValidationBeforeFetch ==
    CtorEnded =>
        /\ InvalidTypeFailsFirst
        /\ ((TypesValid /\ ctor_args.page_num \in IntLiterals) => search_fetches = 1)

C3_Witness ==
    /\ pc = "ctor_failed"
    /\ ListingTypeValid
    /\ ~PropertyTypeValid
    /\ ctor_args.page_num \in IntLiterals
    /\ err.what = "property types"

\* The detail fetches that were answered with status 404.
GoneFetches == {i \in 1..Len(detail_fetches) : detail_fetches[i].answer = "404"}

\* C4: when the detail page of a listing answers 404 during listings_to_df,
\* the call goes on without that listing or ends with the HTTP error that
\* carries the code 404 and the sold/rent/edited explanation; it ends with
\* no other error, and no row is emitted for that listing.
C4_GoneIsTyped ==
    \A i \in GoneFetches :
        /\ \A k \in 1..Len(records) :
              records[k].property_id # detail_fetches[i].property_id
        /\ (pc = "raised" =>
              /\ err.kind = "HTTPError"
              /\ err.code = "404"
              /\ err.msg = GoneMsg)

C4_Witness ==
    /\ GoneFetches # {}
    /\ pc = "raised"
    /\ Len(records) = 1

\* C5: a detail fetch that fails with an HTTP status other than 404
\* propagates out of the parser's construction: no parser object is handed
\* back after a failed fetch.
C5_FailedFetchPropagates ==
    \A i \in 1..Len(detail_fetches) :
        detail_fetches[i].answer \in HttpErrorCodes \ {"404"} =>
            /\ pc = "raised"
            /\ err.kind = "HTTPError"
            /\ err.code = detail_fetches[i].answer

\* C6: in both locales listings_to_df makes a record of an unseen listing:
\* the cluster identifier is optional, so the call does not fail where the
\* cards carry none, the record then has no cluster_id field, and the
\* property identifier and the page's fields are merged in.
C6_ClusterIdOptional ==
    /\ (pc = "raised" => err.kind # "KeyError")
    /\ \A k \in 1..Len(records) :
          /\ {"property_id", "lang", "listing_type", "property_type", "page_num"}
                \subseteq DOMAIN records[k]
          /\ (lang = "eng" => "cluster_id" \notin DOMAIN records[k])

\* C7: no field of a row of the table holds a null marker: a field whose
\* value is None or absent is omitted from the row.
C7_NoNullInRows ==
    \A k \in 1..Len(records) :
        \A c \in DOMAIN records[k] : ~IsNull(records[k][c])

\* ------------------------------------------------------------------ is_active
\* The <div class="inactive-text"> of a detail page: absent, or with a text.
MaxMarkerLen == 3
MarkerChars == {"a", " ", "x"}
NoMarker == [present |-> FALSE, text |-> <<>>]
Markers == {NoMarker} \cup {[present |-> TRUE, text |-> t] : t \in SeqsUpTo(MarkerChars, MaxMarkerLen)}

\* _inactive_text_exist: find() gives None without the element, and
\* None.get_text() raises AttributeError; a non-empty text is true.  The
\* "eng" branch returns None.
inactive_text_exist(lng, marker) ==
    IF lng = "hun"
    THEN IF ~marker.present
         THEN [kind |-> "raise", exc |-> "AttributeError"]
         ELSE [kind |-> "ok", value |-> IF marker.text # <<>> THEN "True" ELSE "False"]
    ELSE [kind |-> "ok", value |-> "None"]

\* is_active: "hun" starts from True, sets False when the text exists and
\* passes over the AttributeError; "eng" returns what _inactive_text_exist
\* returns.
is_active(lng, marker) ==
    LET exist == inactive_text_exist(lng, marker)
    IN  IF lng = "hun"
        THEN IF exist.kind = "raise"
             THEN "True"
             ELSE IF exist.value = "True" THEN "False" ELSE "True"
        ELSE exist.value

InitActive ==
    /\ PageIdle
    /\ f_in \in [lang : Langs, marker : Markers]
    /\ f_out = Pending

IsActive ==
    /\ f_out = Pending
    /\ f_out' = [kind |-> "ok", value |-> is_active(f_in.lang, f_in.marker)]
    /\ UNCHANGED <<pageVars, f_in>>

NextActive == IsActive

SpecActive == InitActive /\ [][NextActive]_vars

\* C11: is_active is True for every listing of the locale without an
\* inactive marker ("eng"), whatever the page holds; in the other locale it
\* is False exactly when a marker element with a non-empty text is present,
\* and True otherwise, the missing element included.
C11_IsActive ==
    f_out.kind = "ok" =>
        IF f_in.lang = "eng"
        THEN f_out.value = "True"
        ELSE f_out.value =
                 IF f_in.marker.present /\ Len(f_in.marker.text) > 0 THEN "False" ELSE "True"


\* ------------------------------------------------- extract_photos, directly
\* The detail pages extract_photos is called on: a parsed page of either
\* locale with up to MaxPhotos photos, or an object whose fetch failed.
PhotoDocs == {[FullDoc EXCEPT !.photos = ps] : ps \in SeqsUpTo(PhotoSet, MaxPhotos)}
PhotoParsers ==
    {[kind |-> "parser", property_url |-> V, parsed |-> TRUE, doc |-> d] : d \in PhotoDocs}
        \cup {[kind |-> "parser", property_url |-> V, parsed |-> FALSE, doc |-> SparseDoc]}

\* A parser built by the caller, with the directory present or absent.
InitPhotos ==
    /\ lang \in Langs
    /\ pc = "constructed" /\ err = NoErr
    /\ ctor_args = NoArgs /\ page_obj = NoPage
    /\ search_fetches = 0 /\ page = <<>>
    /\ in_df = {} /\ num_listings = NoLimit /\ unique_ids = <<>>
    /\ idx = 0 /\ counter = 0 /\ records = <<>>
    /\ detail_fetches = <<>>
    /\ parser \in PhotoParsers
    /\ photos_dir \in PhotoDirs /\ fs_dirs \in SUBSET PhotoDirs
    /\ downloads = <<>> /\ files = {}
    /\ f_in = <<>> /\ f_out = Pending

NextPhotos == \E bad \in 0..MaxPhotos : ExtractPhotos(bad)

SpecPhotos == InitPhotos /\ [][NextPhotos]_vars

\* The file name the photo is to be saved under: the last segment of its
\* URL, with the label before the extension or with .jpg after it.
LastSegment(url) == LET parts == Split(url, "/") IN parts[Len(parts)]
ExpectedName(lng, photo) ==
    LET seg == LastSegment(photo.large_url)
        parts == path_splitext(seg)
    IN  IF lng = "hun" THEN parts.fn \o <<"_">> \o photo.label \o parts.ext
        ELSE seg \o <<".", "jpg">>

\* C12: in both locales extract_photos on a parsed page, when no download
\* is answered with an error, ends normally with the directory in
\* existence and one download per photo, in order, each writing one file in
\* the directory named from the last segment of the photo's URL (name,
\* "_", label and extension on "hun"; the segment and .jpg on "eng"); and
\* no row of the listing exists before its photos are downloaded.
C12_ExtractPhotos ==
    (/\ pc \in {"photos_done", "raised"}
     /\ parser.parsed
     /\ ~(pc = "raised" /\ err.kind = "HTTPError"))
    => /\ pc = "photos_done"
       /\ photos_dir \in fs_dirs
       /\ Len(downloads) = Len(parser.doc.photos)
       /\ \A i \in 1..Len(downloads) :
             /\ downloads[i].url = parser.doc.photos[i].large_url
             /\ downloads[i].save_path =
                    photos_dir \o <<"/">> \o ExpectedName(lang, parser.doc.photos[i])
       /\ files = {downloads[i].save_path : i \in 1..Len(downloads)}
       /\ \A k \in 1..Len(records) : records[k].property_url # parser.property_url


\* C13: deduplication against the existing table is sound end to end: no
\* row made by listings_to_df has a property_url that the existing table
\* already holds, and no detail page is fetched for a listing recorded
\* there, also when the page's URL of the listing has accented characters
\* (the record holds the stripped URL, the check compares the raw one).
C13_DedupSound ==
    /\ \A k \in 1..Len(records) : records[k].property_url \notin in_df
    /\ \A i \in 1..Len(detail_fetches) : detail_fetches[i].url \notin in_df

====
